---- MODULE Spec2Model ----
(***************************************************************************)
(* Model of the fraud-detection retraining pipeline:                       *)
(*   - ml_model/feature_engineering.py  FraudFeatureEngineer               *)
(*   - ml_model/model_training.py       FraudModelTrainer                  *)
(*   - schedulers/fraud_detection_schedulers.py  the interval job          *)
(*                                                                         *)
(* Time is counted in units of 12 hours, so one day ('1D') is 2 units.     *)
(* A table (DataFrame) is a record [cols, rows]: the set of column names   *)
(* and the sequence of rows; every row carries its index label idx.        *)
(***************************************************************************)
EXTENDS Integers, Sequences, FiniteSets, TLC

VARIABLES
    callerDf,    \* the table object the caller handed to FraudFeatureEngineer
    callerDf0,   \* history: that table as it was before the constructor ran
    selfDf,      \* FraudFeatureEngineer.df
    feState,     \* "new", "schema_error", "constructed", "built", "build_error"
    errMissing,  \* the set named by the ValueError of the constructor
    pc,          \* per executor slot: the position of the retrain run in it
    local,       \* per executor slot: the run's local table df
    artifact,    \* content of the file at model_path
    startArtifact, \* history, per slot: artifact when the run in the slot started
    jobstore,    \* the jobs the scheduler holds
    lastEvent    \* the last event the scheduler logged: <<kind, detail>>

vars == <<callerDf, callerDf0, selfDf, feState, errMissing,
          pc, local, artifact, startArtifact, jobstore, lastEvent>>

feVars == <<callerDf, callerDf0, selfDf, feState, errMissing>>
schedVars == <<pc, local, artifact, startArtifact, jobstore, lastEvent>>

----------------------------------------------------------------------------
(* Bounds of the model *)

MaxRows == 3       \* rows of a table handed to the feature engineer
MaxDbRows == 2     \* rows of the transactions table a retrain run fetches
MaxWorkers == 2    \* executor slots modelled (the thread pool has more)

(* '1D' of rolling('1D'), in units of 12 hours *)
Day == 2

Accounts == {101, 102}
Times == 0 .. (Day + 1)
BadTime == 0 - 1   \* a text that does not parse / a NULL DATETIME

NaT == <<"nat", 0>>
NaN == 0 - 1
Str(n) == <<"str", n>>
Ts(n) == <<"ts", n>>

NoTable == [cols |-> {}, rows |-> <<>>]

----------------------------------------------------------------------------
(* Helpers on sequences and sets *)

Range(s) == {s[i] : i \in DOMAIN s}

Min(S) == CHOOSE x \in S : \A y \in S : x <= y

Extend(r, ext) ==
    [k \in (DOMAIN r) \cup (DOMAIN ext) |->
        IF k \in DOMAIN ext THEN ext[k] ELSE r[k]]

RECURSIVE SumAmount(_)
SumAmount(rows) ==
    IF rows = <<>> THEN 0 ELSE Head(rows).amount + SumAmount(Tail(rows))

GroupRows(rows, acc) == SelectSeq(rows, LAMBDA r : r.account_id = acc)

----------------------------------------------------------------------------
(* The input tables *)

(* mutant: 'device_id' left out of the required columns *)
required_cols_without_device ==
    {"txn_id", "account_id", "amount", "timestamp",
     "tx_type", "channel", "location"}

required_cols ==
    {"txn_id", "account_id", "amount", "timestamp",
     "tx_type", "channel", "device_id", "location"}

(* amount, device_id and location of the i-th row, as in the sample data *)
SampleAmount == <<500, 1500, 2500, 1200, 8000>>
SampleDevice == <<"D1", "D1", "D2", "D1", "D3">>
SampleLocation == <<"Mumbai", "Mumbai", "Delhi", "Mumbai", "Pune">>

RawTimestamp(kind, n) ==
    IF kind = "str" THEN Str(n)
    ELSE IF n = BadTime THEN NaT ELSE Ts(n)

MkRow(i, acc, ts, label) ==
    [idx |-> i, txn_id |-> i, account_id |-> acc, amount |-> SampleAmount[i],
     timestamp |-> ts, device_id |-> SampleDevice[i],
     location |-> SampleLocation[i], is_fraud |-> label]

MkTable(cols, kind, choice) ==
    [cols |-> cols,
     rows |-> [i \in DOMAIN choice |->
                 MkRow(i, choice[i][1], RawTimestamp(kind, choice[i][2]), 0)]]

DroppableCols == {"device_id", "timestamp"}

InputTables ==
    { MkTable((required_cols \cup {"beneficiary_id"}) \ drop, kind, choice) :
        drop \in SUBSET DroppableCols,
        kind \in {"str", "ts"},
        choice \in UNION { [1..n -> Accounts \X (Times \cup {BadTime})] :
                              n \in 0..MaxRows } }

----------------------------------------------------------------------------
(* FraudFeatureEngineer *)

(* pd.to_datetime(value, errors='coerce') *)
to_datetime(v) ==
    IF v[1] = "str" THEN (IF v[2] = BadTime THEN NaT ELSE Ts(v[2]))
    ELSE v

ConvertTimestamps(df) ==
    [df EXCEPT !.rows =
        [i \in DOMAIN df.rows |->
            [df.rows[i] EXCEPT !.timestamp = to_datetime(@)]]]

MissingCols(df) == required_cols \ df.cols

(* add_time_features: .dt.hour and .dt.dayofweek, NaN for NaT *)
add_time_features(df) ==
    [cols |-> df.cols \cup {"hour", "day_of_week"},
     rows |-> [i \in DOMAIN df.rows |->
        LET t == df.rows[i].timestamp IN
        Extend(df.rows[i],
          [hour |-> IF t = NaT THEN NaN ELSE (t[2] % Day) * (24 \div Day),
           day_of_week |-> IF t = NaT THEN NaN ELSE (t[2] \div Day) % 7])]]

(* add_high_value_flag: amount > 3 * mean(amount) over the whole table *)
add_high_value_flag(df) ==
    LET n == Len(df.rows)
        total == SumAmount(df.rows)
    IN [cols |-> df.cols \cup {"is_high_value"},
        rows |-> [i \in DOMAIN df.rows |->
           Extend(df.rows[i],
             [is_high_value |->
                 IF df.rows[i].amount * n > 3 * total THEN 1 ELSE 0])]]

(* add_behavioral_features: groupby('account_id') count and mean; the mean
   is kept as the pair <<sum, count>> *)
add_behavioral_features(df) ==
    [cols |-> df.cols \cup {"tx_count_24h", "avg_tx_amount"},
     rows |-> [i \in DOMAIN df.rows |->
        LET g == GroupRows(df.rows, df.rows[i].account_id) IN
        Extend(df.rows[i],
          [tx_count_24h |-> Len(g),
           avg_tx_amount |-> <<SumAmount(g), Len(g)>>])]]

(* add_device_and_location_features: groupby('account_id') nunique *)
add_device_and_location_features(df) ==
    [cols |-> df.cols \cup {"unique_devices", "unique_locations"},
     rows |-> [i \in DOMAIN df.rows |->
        LET g == GroupRows(df.rows, df.rows[i].account_id) IN
        Extend(df.rows[i],
          [unique_devices |-> Cardinality({r.device_id : r \in Range(g)}),
           unique_locations |-> Cardinality({r.location : r \in Range(g)})])]]

(* Ordering of timestamps in sort_values: NaT sorts last (na_position) *)
TsLess(a, b) == a # NaT /\ (b = NaT \/ a[2] < b[2])

RowLess(by, a, b) ==
    IF by = "timestamp" THEN TsLess(a.timestamp, b.timestamp)
    ELSE \/ a.account_id < b.account_id
         \/ a.account_id = b.account_id /\ TsLess(a.timestamp, b.timestamp)

RECURSIVE InsertRow(_, _, _)
InsertRow(by, r, s) ==
    IF s = <<>> THEN <<r>>
    ELSE IF RowLess(by, r, Head(s)) THEN <<r>> \o s
    ELSE <<Head(s)>> \o InsertRow(by, r, Tail(s))

(* DataFrame.sort_values: rows keep their index labels; for tables of this
   size (below 17 rows) the sort is an insertion sort, which keeps the order
   of rows with equal keys *)
RECURSIVE sort_values(_, _)
sort_values(by, rows) ==
    IF rows = <<>> THEN <<>>
    ELSE InsertRow(by, rows[Len(rows)],
                   sort_values(by, SubSeq(rows, 1, Len(rows) - 1)))

HasNaT(rows) == \E i \in DOMAIN rows : rows[i].timestamp = NaT

(* mutant: the window closed on the left and open on the right,
   [t - 1D, t), which leaves the row itself out *)
rolling_count_closed_left(g, i) ==
    Cardinality({j \in 1..(i - 1) :
                    g[j].timestamp[2] >= g[i].timestamp[2] - Day})

(* group['txn_id'].rolling('1D').count() at position i of a group sorted by
   time: the window is (t - 1D, t] (closed='right', the default) and ends at
   position i, so it holds the rows j <= i with t_j > t_i - 1D *)
rolling_count(g, i) ==
    Cardinality({j \in 1..i : g[j].timestamp[2] > g[i].timestamp[2] - Day})

(* mutant: the table is replaced by the group's rows instead of being
   updated at the group's labels *)
WriteBackGroupOnly(rows, group_index, values) ==
    [k \in DOMAIN group_index |->
        [(CHOOSE r \in Range(rows) : r.idx = group_index[k])
            EXCEPT !.tx_24h_window = values[k]]]

(* self.df.loc[group_index, 'tx_24h_window'] = values *)
WriteBack(rows, group_index, values) ==
    [i \in DOMAIN rows |->
        IF \E k \in DOMAIN group_index : group_index[k] = rows[i].idx
        THEN [rows[i] EXCEPT !.tx_24h_window =
                 values[CHOOSE k \in DOMAIN group_index :
                            group_index[k] = rows[i].idx]]
        ELSE rows[i]]

(* the loop over self.df.groupby('account_id'), groups in key order;
   rolling('1D') raises ValueError on a time index that holds NaT *)
RECURSIVE VelocityLoop(_, _)
VelocityLoop(rows, accs) ==
    IF accs = {} THEN [ok |-> TRUE, rows |-> rows]
    ELSE LET acc == Min(accs)
             group == sort_values("timestamp", GroupRows(rows, acc))
             group_index == [k \in DOMAIN group |-> group[k].idx]
         IN IF HasNaT(group) THEN [ok |-> FALSE, rows |-> rows]
            ELSE VelocityLoop(
                   WriteBack(rows, group_index,
                             [k \in DOMAIN group |-> rolling_count(group, k)]),
                   accs \ {acc})

add_velocity_features(df) ==
    LET sorted == sort_values("account_id,timestamp", df.rows)
        zeroed == [i \in DOMAIN sorted |->
                      Extend(sorted[i], [tx_24h_window |-> 0])]
        res == VelocityLoop(zeroed, {r.account_id : r \in Range(zeroed)})
    IN [ok |-> res.ok,
        df |-> [cols |-> df.cols \cup {"tx_24h_window"}, rows |-> res.rows]]

build_features(df) ==
    add_velocity_features(
        add_device_and_location_features(
            add_behavioral_features(
                add_high_value_flag(
                    add_time_features(df)))))

(* FraudFeatureEngineer.__init__, as a function of the caller's table: the
   columns the ValueError names, the caller's table afterwards, and self.df *)
engineer_init(df) ==
    IF MissingCols(df) # {}
    THEN [missing |-> MissingCols(df), caller |-> df, self |-> NoTable]
    ELSE [missing |-> {}, caller |-> ConvertTimestamps(df),
          self |-> ConvertTimestamps(df)]

----------------------------------------------------------------------------
(* Feature engineering on a caller's table *)

Slots == 1..MaxWorkers

SchedInit ==
    /\ pc = [w \in Slots |-> "idle"]
    /\ local = [w \in Slots |-> NoTable]
    /\ artifact = <<"absent", 0>>
    /\ startArtifact = [w \in Slots |-> <<"absent", 0>>]
    /\ jobstore = {"retrain_fraud_model"}
    /\ lastEvent = <<"none", "">>

InitFE ==
    /\ callerDf \in InputTables
    /\ callerDf0 = callerDf
    /\ selfDf = NoTable
    /\ feState = "new"
    /\ errMissing = {}
    /\ SchedInit

ConstructFail ==
    /\ feState = "new"
    /\ engineer_init(callerDf).missing # {}
    /\ errMissing' = engineer_init(callerDf).missing
    /\ callerDf' = engineer_init(callerDf).caller
    /\ selfDf' = engineer_init(callerDf).self
    /\ feState' = "schema_error"
    /\ UNCHANGED <<callerDf0, schedVars>>

ConstructOk ==
    /\ feState = "new"
    /\ engineer_init(callerDf).missing = {}
    /\ callerDf' = engineer_init(callerDf).caller
    /\ selfDf' = engineer_init(callerDf).self
    /\ feState' = "constructed"
    /\ UNCHANGED <<errMissing, callerDf0, schedVars>>

BuildOk ==
    /\ feState = "constructed"
    /\ build_features(selfDf).ok
    /\ selfDf' = build_features(selfDf).df
    /\ feState' = "built"
    /\ UNCHANGED <<callerDf, callerDf0, errMissing, schedVars>>

BuildFail ==
    /\ feState = "constructed"
    /\ ~build_features(selfDf).ok
    /\ selfDf' = build_features(selfDf).df
    /\ feState' = "build_error"
    /\ UNCHANGED <<callerDf, callerDf0, errMissing, schedVars>>

NextFE == ConstructFail \/ ConstructOk \/ BuildOk \/ BuildFail

SpecFE == InitFE /\ [][NextFE]_vars

----------------------------------------------------------------------------
(* The scheduled retrain job *)

(* mutant: two instances of the job may run at once *)
max_instances_two == 1 + 1

(* add_job(retrain_fraud_model, 'interval', seconds=10) passes no
   max_instances, so the job gets APScheduler's default of one running
   instance; a fire that finds that many running is logged and skipped *)
max_instances == 1

(* the transactions table as read_sql returns it: the DATETIME column comes
   back as datetime64, a NULL as NaT *)
DbCols == required_cols \cup {"beneficiary_id", "is_fraud"}

DbColChoices == {DbCols, DbCols \ {"is_fraud"}, DbCols \ {"device_id"}}

DbTables ==
    { [cols |-> c,
       rows |-> [i \in DOMAIN ch |->
                   MkRow(i, 101, RawTimestamp("ts", ch[i][1]), ch[i][2])]] :
        c \in DbColChoices,
        ch \in UNION { [1..n -> {0, BadTime} \X {0, 1}] : n \in 0..MaxDbRows } }

LabelClasses(df) == {r.is_fraud : r \in Range(df.rows)}

(* mutant: no step of train_model rejects the table before the dump *)
train_outcomes_unchecked(df) == {"ok"}

(* train_model up to the evaluation report: the outcomes of
   df['is_fraud'], train_test_split(stratify=y), SMOTE.fit_resample, fit and
   predict.  A label with fewer than two classes is always rejected; whether
   a two-class label passes the 80/20 stratified split and SMOTE depends on
   class sizes, so both outcomes are kept *)
train_outcomes(df) ==
    IF "is_fraud" \notin df.cols THEN {"label_absent"}
    ELSE IF Cardinality(LabelClasses(df)) < 2 THEN {"degenerate"}
    ELSE {"ok", "insufficient_data"}

(* mutant: a job that raised is removed from the job store *)
after_job_error_removed(js) == js \ {"retrain_fraud_model"}

(* what a job that raised leaves in the job store: the executor catches the
   exception, logs it, and the job stays scheduled *)
after_job_error(js) == js

Running == {w \in Slots : pc[w] # "idle"}

Init ==
    /\ callerDf = NoTable
    /\ callerDf0 = NoTable
    /\ selfDf = NoTable
    /\ feState = "new"
    /\ errMissing = {}
    /\ SchedInit

(* the interval trigger fires and the executor accepts the run *)
FireStart ==
    /\ "retrain_fraud_model" \in jobstore
    /\ Cardinality(Running) < max_instances
    /\ Slots \ Running # {}
    /\ LET w == Min(Slots \ Running) IN
        /\ pc' = [pc EXCEPT ![w] = "start"]
        /\ local' = [local EXCEPT ![w] = NoTable]
        /\ startArtifact' = [startArtifact EXCEPT ![w] = artifact]
    /\ UNCHANGED <<artifact, jobstore, lastEvent, feVars>>

(* the interval trigger fires while max_instances runs are in flight *)
FireSkip ==
    /\ "retrain_fraud_model" \in jobstore
    /\ Cardinality(Running) >= max_instances
    /\ lastEvent' = <<"skipped", "max_instances">>
    /\ UNCHANGED <<pc, local, artifact, startArtifact, jobstore, feVars>>

(* the run in slot w raises: the exception ends the run *)
JobFail(w, kind) ==
    /\ pc' = [pc EXCEPT ![w] = "idle"]
    /\ local' = [local EXCEPT ![w] = NoTable]
    /\ lastEvent' = <<"error", kind>>
    /\ jobstore' = after_job_error(jobstore)
    /\ UNCHANGED <<startArtifact, feVars>>

(* trainer = FraudModelTrainer() *)
TrainerInit(w) ==
    /\ pc[w] = "start"
    /\ pc' = [pc EXCEPT ![w] = "init"]
    /\ UNCHANGED <<local, artifact, startArtifact, jobstore, lastEvent, feVars>>

TrainerInitFail(w) ==
    /\ pc[w] = "start"
    /\ JobFail(w, "config")
    /\ UNCHANGED artifact

(* df = trainer.load_data_from_db() *)
Load(w) ==
    /\ pc[w] = "init"
    /\ \E t \in DbTables : local' = [local EXCEPT ![w] = t]
    /\ pc' = [pc EXCEPT ![w] = "loaded"]
    /\ UNCHANGED <<artifact, startArtifact, jobstore, lastEvent, feVars>>

LoadFail(w) ==
    /\ pc[w] = "init"
    /\ JobFail(w, "connectivity")
    /\ UNCHANGED artifact

(* df = trainer.preprocess_data(df) *)
Preprocess(w) ==
    /\ pc[w] = "loaded"
    /\ engineer_init(local[w]).missing = {}
    /\ build_features(engineer_init(local[w]).self).ok
    /\ local' = [local EXCEPT ![w] =
                    build_features(engineer_init(local[w]).self).df]
    /\ pc' = [pc EXCEPT ![w] = "enriched"]
    /\ UNCHANGED <<artifact, startArtifact, jobstore, lastEvent, feVars>>

PreprocessSchemaError(w) ==
    /\ pc[w] = "loaded"
    /\ engineer_init(local[w]).missing # {}
    /\ JobFail(w, "schema")
    /\ UNCHANGED artifact

PreprocessBuildError(w) ==
    /\ pc[w] = "loaded"
    /\ engineer_init(local[w]).missing = {}
    /\ ~build_features(engineer_init(local[w]).self).ok
    /\ JobFail(w, "rolling_nat")
    /\ UNCHANGED artifact

(* trainer.train_model(df), up to the report *)
Train(w) ==
    /\ pc[w] = "enriched"
    /\ "ok" \in train_outcomes(local[w])
    /\ pc' = [pc EXCEPT ![w] = "trained"]
    /\ UNCHANGED <<local, artifact, startArtifact, jobstore, lastEvent, feVars>>

TrainFail(w) ==
    /\ pc[w] = "enriched"
    /\ \E e \in train_outcomes(local[w]) \ {"ok"} : JobFail(w, e)
    /\ UNCHANGED artifact

(* joblib.dump(model, self.model_path): opens model_path for writing, which
   truncates it, writes the pickled model, and closes the file.  The model is
   identified by the number of rows it was fitted on. *)
DumpOpen(w) ==
    /\ pc[w] = "trained"
    /\ artifact' = <<"partial", Len(local[w].rows)>>
    /\ pc' = [pc EXCEPT ![w] = "dumping"]
    /\ UNCHANGED <<local, startArtifact, jobstore, lastEvent, feVars>>

DumpOpenFail(w) ==
    /\ pc[w] = "trained"
    /\ JobFail(w, "persistence")
    /\ UNCHANGED artifact

DumpFinish(w) ==
    /\ pc[w] = "dumping"
    /\ artifact' = <<"complete", Len(local[w].rows)>>
    /\ pc' = [pc EXCEPT ![w] = "idle"]
    /\ local' = [local EXCEPT ![w] = NoTable]
    /\ lastEvent' = <<"executed", "">>
    /\ UNCHANGED <<startArtifact, jobstore, feVars>>

DumpWriteFail(w) ==
    /\ pc[w] = "dumping"
    /\ JobFail(w, "persistence")
    /\ UNCHANGED artifact

Fire == FireStart \/ FireSkip

Step(w) ==
    \/ TrainerInit(w) \/ TrainerInitFail(w)
    \/ Load(w) \/ LoadFail(w)
    \/ Preprocess(w) \/ PreprocessSchemaError(w) \/ PreprocessBuildError(w)
    \/ Train(w) \/ TrainFail(w)
    \/ DumpOpen(w) \/ DumpOpenFail(w) \/ DumpFinish(w) \/ DumpWriteFail(w)

Next == Fire \/ \E w \in Slots : Step(w)

Spec == Init /\ [][Next]_vars

(* the interval trigger keeps firing, every 10 seconds *)
FairSpec == Spec /\ WF_vars(Fire)

----------------------------------------------------------------------------
(* Properties of the feature engineer (SpecFE) *)

Enriched == Range(selfDf.rows)

SameAccount(r) == {q \in Enriched : q.account_id = r.account_id}

(* C1: after build_features on a table whose timestamps all parse, every
   row's tx_24h_window is the number of rows of its account whose timestamp
   lies in the closed interval [t - 24h, t], whatever the rows' order *)
C1_WindowIsClosedInterval ==
    feState = "built" =>
        \A r \in Enriched :
            r.tx_24h_window =
                Cardinality({q \in SameAccount(r) :
                    /\ q.timestamp[2] >= r.timestamp[2] - Day
                    /\ q.timestamp[2] <= r.timestamp[2]})

(* C2: the table build_features returns has exactly the rows of the input
   table: none dropped, none added *)
C2_RowCountPreserved ==
    feState = "built" =>
        /\ Len(selfDf.rows) = Len(callerDf0.rows)
        /\ {r.txn_id : r \in Enriched} = {r.txn_id : r \in Range(callerDf0.rows)}

(* a table of MaxRows rows whose rows the velocity step's sort re-ordered *)
C2_Witness ==
    /\ feState = "built"
    /\ Len(selfDf.rows) = MaxRows
    /\ \E i \in DOMAIN selfDf.rows : selfDf.rows[i].idx # i

(* C3: in the output of build_features every row's tx_24h_window is at
   least 1 and at most the row's tx_count_24h *)
C3_WindowBounds ==
    feState = "built" =>
        \A r \in Enriched :
            /\ r.tx_24h_window >= 1
            /\ r.tx_24h_window <= r.tx_count_24h

(* an account with a row whose window holds several rows and a row whose
   window is smaller than the account's total *)
C3_Witness ==
    /\ feState = "built"
    /\ \E r \in Enriched : r.tx_24h_window >= 2
    /\ \E r \in Enriched : r.tx_24h_window < r.tx_count_24h

(* C4: when any of the eight required columns is absent, the constructor
   fails with an error naming exactly the missing columns, the caller's table
   is as it was and no derived table exists *)
C4_MissingColumnRejected ==
    LET eight == {"txn_id", "account_id", "amount", "timestamp",
                  "tx_type", "channel", "device_id", "location"}
        absent == eight \ callerDf0.cols
    IN /\ (feState # "new" /\ absent # {}) => feState = "schema_error"
       /\ feState = "schema_error" =>
            /\ absent # {}
            /\ errMissing = absent
            /\ callerDf = callerDf0
            /\ selfDf = NoTable

(* the constructor rejected a non-empty table lacking two columns *)
C4_Witness ==
    /\ feState = "schema_error"
    /\ errMissing = {"device_id", "timestamp"}
    /\ Len(callerDf0.rows) > 0

Unparseable(v) == to_datetime(v) = NaT

BadRows == {r.idx : r \in {q \in Range(callerDf0.rows) : Unparseable(q.timestamp)}}

(* C5: a row whose timestamp does not parse does not abort enrichment:
   build_features completes, the row is in the output with undefined
   tx_24h_window, hour and day_of_week, and no other row counts it *)
C5_UnparseableRowTolerated ==
    (feState \in {"built", "build_error"} /\ BadRows # {}) =>
        /\ feState = "built"
        /\ \A r \in Enriched :
            IF r.idx \in BadRows
            THEN r.tx_24h_window = NaN /\ r.hour = NaN /\ r.day_of_week = NaN
            ELSE r.tx_24h_window <=
                    Cardinality({q \in SameAccount(r) : q.idx \notin BadRows})

(* C6: constructing the engineer and running build_features leaves the
   caller's table as it was *)
C6_CallerTableUnchanged ==
    callerDf = callerDf0

----------------------------------------------------------------------------
(* Properties of the scheduled retrain job (Spec, FairSpec) *)

(* C7: at most one retrain run is in flight, and so at most one run is
   writing the model file *)
C7_SingleFlight ==
    /\ Cardinality(Running) <= 1
    /\ Cardinality({w \in Slots : pc[w] = "dumping"}) <= 1

(* the trigger fired while a run was writing the model, and was skipped *)
C7_Witness ==
    /\ lastEvent = <<"skipped", "max_instances">>
    /\ \E w \in Slots : pc[w] = "dumping"

(* C8: the file at the model path is never partially written: a reader of
   it finds no file, or a complete model *)
C8_ArtifactNeverPartial ==
    artifact[1] # "partial"

(* C9: the model file changes only in the dump, by a run whose table has
   the required columns and a label of two classes; and a run that ends in a
   schema error or a degenerate label leaves the file as it found it *)
C9_ArtifactWrittenLast ==
    [][ /\ artifact' # artifact =>
            \E w \in Slots :
                /\ pc[w] \in {"trained", "dumping"}
                /\ {"txn_id", "account_id", "amount", "timestamp", "tx_type",
                    "channel", "device_id", "location", "is_fraud"}
                       \subseteq local[w].cols
                /\ \E r, q \in Range(local[w].rows) : r.is_fraud # q.is_fraud
        /\ \A w \in Slots :
            ( /\ pc[w] # "idle"
              /\ pc'[w] = "idle"
              /\ lastEvent'[1] = "error"
              /\ lastEvent'[2] \in {"schema", "label_absent", "degenerate",
                                    "insufficient_data"} )
            => artifact' = startArtifact[w]
      ]_vars

(* a run failed on a degenerate label after an earlier run had written a
   complete model, which is still there *)
C9_Witness ==
    /\ lastEvent = <<"error", "degenerate">>
    /\ artifact[1] = "complete"
    /\ \A w \in Slots : pc[w] = "idle"

(* C10: after a failed run the job is still scheduled and the trigger fires
   again: a new run starts, with no table carried over from the failed one *)
C10_FailedRunRetried ==
    ((\A w \in Slots : pc[w] = "idle") /\ lastEvent[1] = "error")
        ~> (\E w \in Slots : pc[w] = "start" /\ local[w] = NoTable)

(* a run has started after a run that failed *)
C10_Witness ==
    /\ lastEvent[1] = "error"
    /\ \E w \in Slots : pc[w] = "start" /\ local[w] = NoTable
    /\ "retrain_fraud_model" \in jobstore

====
